---- MODULE Spec2Model ----
(***************************************************************************)
(* Model of package formparser (parser.go): FormParser flattens a struct   *)
(* value into a list of string key/value pairs.                            *)
(*                                                                         *)
(* Go strings are modelled as sequences of one-character strings, so that  *)
(* strings.Split, strings.Join, concatenation, strconv and base64 are      *)
(* computed character by character.  A reflect.Value is a record whose     *)
(* field kind is the result of Value.Kind().  Map iteration order is not   *)
(* defined by Go, so every encoder yields the SET of its possible          *)
(* outcomes; an outcome is a KV list, an error, or a panic.                *)
(***************************************************************************)
EXTENDS Integers, Sequences, FiniteSets, TLC

VARIABLES p, v, pc, kvs, m, err, panicMsg

vars == <<p, v, pc, kvs, m, err, panicMsg>>

RECURSIVE Digits(_)
RECURSIVE Split(_, _)
RECURSIVE Join(_, _)
RECURSIVE EncodeToString(_)
RECURSIVE rootElem(_)
RECURSIVE elimPtr(_)
RECURSIVE parse(_, _, _)
RECURSIVE parseFields(_, _, _, _)
RECURSIVE encode(_, _, _, _)
RECURSIVE encodeSlice(_, _, _, _)
RECURSIVE encodeElems(_, _, _, _, _)
RECURSIVE encodeStruct(_, _, _, _)
RECURSIVE encodeMap(_, _, _, _)
RECURSIVE encodeEntries(_, _, _, _)
RECURSIVE PtrT(_, _)
RECURSIVE Vals(_)
RECURSIVE FieldVals(_, _)
RECURSIVE ResolvesToStruct(_)
RECURSIVE StripDropped(_, _)
RECURSIVE IsAbsent(_)
RECURSIVE StripAbsent(_)
RECURSIVE ContainsUnsupported(_)
RECURSIVE ReachesUnsupported(_, _)
RECURSIVE Pointee(_)
RECURSIVE ElemOutcomes(_, _, _, _, _)
RECURSIVE HasNoInherit(_, _)
RECURSIVE Plain(_)

(***************************************************************************)
(* Bounds of the explored inputs.                                          *)
(***************************************************************************)
MaxLen == 2

MaxPtrDepth == 2

(***************************************************************************)
(* Strings.                                                                *)
(***************************************************************************)
DigitChars == <<"0", "1", "2", "3", "4", "5", "6", "7", "8", "9">>

\* decimal digits of n >= 0
Digits(n) ==
    IF n < 10 THEN <<DigitChars[n + 1]>>
    ELSE Digits(n \div 10) \o <<DigitChars[(n % 10) + 1]>>

\* strconv.Itoa / strconv.FormatInt(n, 10) / strconv.FormatUint(n, 10) / "%d"
FormatInt(n) == IF n < 0 THEN <<"-">> \o Digits(-n) ELSE Digits(n)

\* fmt.Sprintf("%v", f) for a float f = q/4 of small magnitude: the shortest
\* decimal that reads back as f, without exponent
FormatQuarters(q) ==
    LET a == IF q < 0 THEN -q ELSE q
        frac == CASE a % 4 = 0 -> <<>>
                  [] a % 4 = 1 -> <<".", "2", "5">>
                  [] a % 4 = 2 -> <<".", "5">>
                  [] a % 4 = 3 -> <<".", "7", "5">>
    IN  (IF q < 0 THEN <<"-">> ELSE <<>>) \o Digits(a \div 4) \o frac

\* strconv.FormatBool
FormatBool(b) == IF b THEN <<"t", "r", "u", "e">> ELSE <<"f", "a", "l", "s", "e">>

\* strings.Split(s, sep) for a one-character separator: always at least one segment
Split(s, sep) ==
    IF \A i \in 1..Len(s) : s[i] # sep THEN <<s>>
    ELSE LET i == CHOOSE j \in 1..Len(s) :
                      s[j] = sep /\ \A k \in 1..(j - 1) : s[k] # sep
         IN  <<SubSeq(s, 1, i - 1)>> \o Split(SubSeq(s, i + 1, Len(s)), sep)

\* strings.Join(list, sep)
Join(list, sep) ==
    IF Len(list) = 0 THEN <<>>
    ELSE IF Len(list) = 1 THEN list[1]
    ELSE list[1] \o sep \o Join(Tail(list), sep)

\* the alphabet of base64.StdEncoding
StdAlphabet ==
    <<"A", "B", "C", "D", "E", "F", "G", "H", "I", "J", "K", "L", "M",
      "N", "O", "P", "Q", "R", "S", "T", "U", "V", "W", "X", "Y", "Z",
      "a", "b", "c", "d", "e", "f", "g", "h", "i", "j", "k", "l", "m",
      "n", "o", "p", "q", "r", "s", "t", "u", "v", "w", "x", "y", "z",
      "0", "1", "2", "3", "4", "5", "6", "7", "8", "9", "+", "/">>

\* base64.StdEncoding.EncodeToString(b): 3 bytes -> 4 characters, '=' padding
EncodeToString(b) ==
    IF Len(b) = 0 THEN <<>>
    ELSE IF Len(b) = 1 THEN
        LET n == b[1] * 65536
        IN  <<StdAlphabet[(n \div 262144) + 1],
              StdAlphabet[((n \div 4096) % 64) + 1], "=", "=">>
    ELSE IF Len(b) = 2 THEN
        LET n == b[1] * 65536 + b[2] * 256
        IN  <<StdAlphabet[(n \div 262144) + 1],
              StdAlphabet[((n \div 4096) % 64) + 1],
              StdAlphabet[((n \div 64) % 64) + 1], "=">>
    ELSE
        LET n == b[1] * 65536 + b[2] * 256 + b[3]
        IN  <<StdAlphabet[(n \div 262144) + 1],
              StdAlphabet[((n \div 4096) % 64) + 1],
              StdAlphabet[((n \div 64) % 64) + 1],
              StdAlphabet[(n % 64) + 1]>>
            \o EncodeToString(SubSeq(b, 4, Len(b)))

Dot == <<".">>

Comma == <<",">>

\* the literal "..." of encodeStruct and encodeMap
NoInherit == <<".", ".", ".">>

\* the literal "join" of encodeSlice
JoinWord == <<"j", "o", "i", "n">>

(***************************************************************************)
(* reflect.Value                                                           *)
(***************************************************************************)
\* the zero reflect.Value: what Elem() of a nil pointer returns
Invalid == [kind |-> "invalid"]

\* Scalars: named tells whether the value's type is a defined type (type T
\* string) rather than the predeclared one; the kind is the same, the dynamic
\* type that a type assertion sees is not.
StringV(s) == [kind |-> "string", named |-> FALSE, s |-> s]

BoolV(b) == [kind |-> "bool", named |-> FALSE, b |-> b]

\* an integer value of kind k (int, int8, ..., uint64)
IntV(k, n) == [kind |-> k, named |-> FALSE, n |-> n]

\* a float32 or float64 of value q/4
FloatV(k, q) == [kind |-> k, named |-> FALSE, q |-> q]

\* a complex64 or complex128 of value re/4 + (im/4)i
ComplexV(k, re, im) == [kind |-> k, named |-> FALSE, re |-> re, im |-> im]

\* the scalar val as a value of a defined type
Defined(val) == [val EXCEPT !.named = TRUE]

\* a pointer; e = Invalid is the nil pointer
PtrV(e) == [kind |-> "ptr", elem |-> e]

NilPtr == PtrV(Invalid)

\* a value of a kind that has no encoder: func, chan, interface, uintptr, unsafe.Pointer
OpaqueV(k) == [kind |-> k]

\* a slice or array: k is "slice" or "array", elemKind the kind of the element
\* type, named whether the sequence type or its element type is a defined type
\* (so that the value's dynamic type is not the literal []uint8, []string ...)
SeqV(k, elemKind, named, elems) ==
    [kind |-> k, elemKind |-> elemKind, named |-> named, elems |-> elems]

\* a map: a set of (key, value) entries with distinct keys
MapV(entries) == [kind |-> "map", entries |-> entries]

\* a struct field: reflect.StructField (Name, Tag) and the field's value
Field(name, tag, val) == [name |-> name, tag |-> tag, val |-> val]

StructV(fields) == [kind |-> "struct", fields |-> fields]

UpperCase ==
    {"A", "B", "C", "D", "E", "F", "G", "H", "I", "J", "K", "L", "M",
     "N", "O", "P", "Q", "R", "S", "T", "U", "V", "W", "X", "Y", "Z"}

\* a field is exported when its name starts with an upper-case letter; a
\* reflect.Value read through an unexported field is flagged read-only, and so
\* is every Value derived from it by Field, Elem, Index, MapKeys and MapIndex
IsExported(f) == f.name[1] \in UpperCase

\* reflect.StructTag.Get(key): the value of the first key:"value" pair, or ""
Get(tag, key) ==
    IF \E i \in 1..Len(tag) : tag[i].key = key
    THEN tag[CHOOSE i \in 1..Len(tag) :
                 tag[i].key = key /\ \A j \in 1..(i - 1) : tag[j].key # key].val
    ELSE <<>>

(***************************************************************************)
(* Outcomes of a call.                                                     *)
(***************************************************************************)
KV(k, val) == [K |-> k, V |-> val]

Ok(list) == [st |-> "ok", kvs |-> list, msg |-> ""]

\* return nil, errors.New(...): the error of parse on a root that is no struct
InvalidRoot ==
    [st |-> "err", kvs |-> <<>>,
     msg |-> "Param obj is invalid, struct or non-nil *struct is needed"]

Panic(msg) == [st |-> "panic", kvs |-> <<>>, msg |-> msg]

\* panic(fmt.Sprintf("Unknown type %v", v.Kind()))
UnknownType(k) == Panic("Unknown type " \o k)

\* v.Interface().(T) in a scalar encoder: Interface panics on a read-only
\* Value, the assertion panics when the dynamic type is a defined type, and
\* otherwise the encoder returns result
Asserted(val, ro, result) ==
    IF ro THEN {Panic("reflect.Value.Interface: unexported field")}
    ELSE IF val.named THEN {Panic("interface conversion")}
    ELSE {result}

\* sequencing of two computations: the second runs only if the first returned
Then(A, B) ==
    {IF a.st # "ok" THEN a ELSE IF b.st # "ok" THEN b ELSE Ok(a.kvs \o b.kvs) :
        a \in A, b \in B}

(***************************************************************************)
(* FormParser.  Every encoder takes the Value as its kind and contents     *)
(* (val) and its read-only flag (ro).                                      *)
(***************************************************************************)
\* FormParser.init: the encoder registered for each reflect.Kind
init ==
    [k \in {"string", "bool", "int", "int8", "int16", "int32", "int64",
            "uint", "uint8", "uint16", "uint32", "uint64", "float32",
            "float64", "complex64", "complex128", "slice", "array", "struct",
            "map", "invalid"} |->
        CASE k = "string" -> "encodeString"
          [] k = "bool" -> "encodeBool"
          [] k \in {"int", "int8", "int16", "int32", "int64"} -> "encodeInt"
          [] k \in {"uint", "uint8", "uint16", "uint32", "uint64"} -> "encodeUint"
          [] k \in {"float32", "float64"} -> "encodeFloat"
          [] k \in {"complex64", "complex128"} -> "encodeComplex"
          [] k \in {"slice", "array"} -> "encodeSlice"
          [] k = "struct" -> "encodeStruct"
          [] k = "map" -> "encodeMap"
          [] k = "invalid" -> "encodeInvalid"]

\* New(tag, ignoreFlag), for non-empty arguments (New panics on an empty one)
New(tag, ignoreFlag) == [tag |-> tag, ignoreFlag |-> ignoreFlag, encoders |-> init]

\* Default() == New("zwf", "-")
Default == New("zwf", <<"-">>)

\* fieldTag comparing the tag with the literal "-" instead of p.ignoreFlag
fieldTagDashOnly(fp, f) ==
    LET tag == Get(f.tag, fp.tag)
    IN  [tag  |-> IF tag # <<"-">> /\ tag = <<>> THEN f.name ELSE tag,
         drop |-> tag = <<"-">>]

\* FormParser.fieldTag: the key of field f and whether the field is dropped
fieldTag(fp, f) ==
    LET tag == Get(f.tag, fp.tag)
    IN  [tag  |-> IF tag # fp.ignoreFlag /\ tag = <<>> THEN f.name ELSE tag,
         drop |-> tag = fp.ignoreFlag]

\* for v.Kind() == reflect.Ptr { v = v.Elem() }
elimPtr(val) == IF val.kind = "ptr" THEN elimPtr(val.elem) ELSE val

\* the head of parse without its pointer loop
rootElemNoDeref(rv) == IF rv.kind = "struct" THEN rv ELSE Invalid

\* the loop at the head of parse: the struct under the pointers of rv, or the
\* zero Value when the chain ends in anything else
rootElem(rv) ==
    IF rv.kind = "struct" THEN rv
    ELSE IF rv.kind = "ptr" THEN rootElem(rv.elem)
    ELSE Invalid

\* encodeString
encodeString(val, ro, tagK) == Asserted(val, ro, Ok(<<KV(tagK, val.s)>>))

\* encodeBool
encodeBool(val, ro, tagK) == Asserted(val, ro, Ok(<<KV(tagK, FormatBool(val.b))>>))

\* encodeInt, encodeInt8, encodeInt16, encodeInt32, encodeInt64
encodeInt(val, ro, tagK) == Asserted(val, ro, Ok(<<KV(tagK, FormatInt(val.n))>>))

\* encodeUint, encodeUint8, encodeUint16, encodeUint32, encodeUint64
encodeUint(val, ro, tagK) == Asserted(val, ro, Ok(<<KV(tagK, FormatInt(val.n))>>))

\* encodeFloat32, encodeFloat64
encodeFloat(val, ro, tagK) ==
    Asserted(val, ro, Ok(<<KV(tagK, FormatQuarters(val.q))>>))

\* encodeComplex64, encodeComplex128: %v prints (real+imagi)
encodeComplex(val, ro, tagK) ==
    Asserted(val, ro,
             Ok(<<KV(tagK, <<"(">> \o FormatQuarters(val.re)
                           \o (IF val.im < 0 THEN <<>> ELSE <<"+">>)
                           \o FormatQuarters(val.im) \o <<"i", ")">>)>>))

\* encodeInvalid: returns nil
encodeInvalid(val, ro, tagK) == {Ok(<<>>)}

\* the element loop of encodeSlice numbering the elements from one
encodeElemsOneBased(fp, val, ro, tagK, i) ==
    IF i >= Len(val.elems) THEN {Ok(<<>>)}
    ELSE Then(encode(fp, val.elems[i + 1], ro, tagK \o Dot \o FormatInt(i + 1)),
              encodeElems(fp, val, ro, tagK, i + 1))

\* the element loop of encodeSlice, from zero-based index i on
encodeElems(fp, val, ro, tagK, i) ==
    IF i >= Len(val.elems) THEN {Ok(<<>>)}
    ELSE Then(encode(fp, val.elems[i + 1], ro, tagK \o Dot \o FormatInt(i)),
              encodeElems(fp, val, ro, tagK, i + 1))

\* encodeSlice leaving the modifier in the key of the joined KV
encodeSliceKeepModifier(fp, val, ro, tagK) ==
    LET isBytes == val.kind = "slice" /\ val.elemKind = "uint8" /\ ~val.named
        isStrList == val.kind = "slice" /\ val.elemKind = "string" /\ ~val.named
        tagList == Split(tagK, ",")
    IN  IF ro THEN {Panic("reflect.Value.Interface: unexported field")}
        ELSE IF isBytes
        THEN {Ok(<<KV(tagK, EncodeToString([i \in 1..Len(val.elems) |-> val.elems[i].n]))>>)}
        ELSE IF isStrList /\ Len(tagList) > 1 /\ tagList[2] = JoinWord
        THEN {Ok(<<KV(tagK, Join([i \in 1..Len(val.elems) |-> val.elems[i].s], Comma))>>)}
        ELSE encodeElems(fp, val, ro, tagK, 0)

\* encodeSlice without the []byte case
encodeSliceNoBytes(fp, val, ro, tagK) ==
    LET isStrList == val.kind = "slice" /\ val.elemKind = "string" /\ ~val.named
        tagList == Split(tagK, ",")
    IN  IF ro THEN {Panic("reflect.Value.Interface: unexported field")}
        ELSE IF isStrList /\ Len(tagList) > 1 /\ tagList[2] = JoinWord
        THEN {Ok(<<KV(tagList[1],
                      Join([i \in 1..Len(val.elems) |-> val.elems[i].s], Comma))>>)}
        ELSE encodeElems(fp, val, ro, tagK, 0)

\* encodeSlice (registered for reflect.Slice and reflect.Array).  The
\* assertions v.Interface().([]byte) and v.Interface().([]string) succeed only
\* when the dynamic type is that very type; Interface panics on a read-only Value.
encodeSlice(fp, val, ro, tagK) ==
    LET isBytes == val.kind = "slice" /\ val.elemKind = "uint8" /\ ~val.named
        isStrList == val.kind = "slice" /\ val.elemKind = "string" /\ ~val.named
        tagList == Split(tagK, ",")
    IN  IF ro THEN {Panic("reflect.Value.Interface: unexported field")}
        ELSE IF isBytes
        THEN {Ok(<<KV(tagK, EncodeToString([i \in 1..Len(val.elems) |-> val.elems[i].n]))>>)}
        ELSE IF isStrList /\ Len(tagList) > 1 /\ tagList[2] = JoinWord
        THEN {Ok(<<KV(tagList[1],
                      Join([i \in 1..Len(val.elems) |-> val.elems[i].s], Comma))>>)}
        ELSE encodeElems(fp, val, ro, tagK, 0)

\* encodeStruct prefixing the keys under the marker "..." too
encodeStructAlwaysPrefix(fp, val, ro, tagK) ==
    {IF r.st = "err" THEN Panic("Parse value failed")
     ELSE IF r.st = "panic" THEN r
     ELSE Ok([i \in 1..Len(r.kvs) |-> KV(tagK \o Dot \o r.kvs[i].K, r.kvs[i].V)]) :
        r \in parse(fp, val, ro)}

\* encodeStruct
encodeStruct(fp, val, ro, tagK) ==
    {IF r.st = "err" THEN Panic("Parse value failed")
     ELSE IF r.st = "panic" THEN r
     ELSE Ok([i \in 1..Len(r.kvs) |->
                 IF tagK # NoInherit
                 THEN KV(tagK \o Dot \o r.kvs[i].K, r.kvs[i].V)
                 ELSE r.kvs[i]]) :
        r \in parse(fp, val, ro)}

\* the body of encodeMap's loop pairing the i-th key KV with the i-th value
\* KV instead of every key KV with every value KV
encodeEntryZip(fp, e, ro, tagK) ==
    {IF keyPair.st # "ok" THEN keyPair
     ELSE IF valPair.st # "ok" THEN valPair
     ELSE Ok([n \in 1..(IF Len(keyPair.kvs) < Len(valPair.kvs)
                        THEN Len(keyPair.kvs) ELSE Len(valPair.kvs)) |->
                 IF tagK = NoInherit
                 THEN KV(keyPair.kvs[n].V, valPair.kvs[n].V)
                 ELSE KV(tagK \o Dot \o keyPair.kvs[n].V, valPair.kvs[n].V)]) :
        keyPair \in encode(fp, e.k, ro, <<>>), valPair \in encode(fp, e.v, ro, <<>>)}

\* the body of encodeMap's loop for one entry: key KVs x value KVs
encodeEntry(fp, e, ro, tagK) ==
    {IF keyPair.st # "ok" THEN keyPair
     ELSE IF valPair.st # "ok" THEN valPair
     ELSE Ok([n \in 1..(Len(keyPair.kvs) * Len(valPair.kvs)) |->
                 LET key == keyPair.kvs[((n - 1) \div Len(valPair.kvs)) + 1]
                     val == valPair.kvs[((n - 1) % Len(valPair.kvs)) + 1]
                 IN  IF tagK = NoInherit
                     THEN KV(key.V, val.V)
                     ELSE KV(tagK \o Dot \o key.V, val.V)]) :
        keyPair \in encode(fp, e.k, ro, <<>>), valPair \in encode(fp, e.v, ro, <<>>)}

\* encodeMap's loop over v.MapKeys(), whose order Go leaves undefined
encodeEntries(fp, entries, ro, tagK) ==
    IF entries = {} THEN {Ok(<<>>)}
    ELSE UNION {Then(encodeEntry(fp, e, ro, tagK),
                     encodeEntries(fp, entries \ {e}, ro, tagK)) : e \in entries}

\* encodeMap
encodeMap(fp, val, ro, tagK) == encodeEntries(fp, val.entries, ro, tagK)

\* the encoder named e applied to val
Apply(e, fp, val, ro, tagK) ==
    CASE e = "encodeString" -> encodeString(val, ro, tagK)
      [] e = "encodeBool" -> encodeBool(val, ro, tagK)
      [] e = "encodeInt" -> encodeInt(val, ro, tagK)
      [] e = "encodeUint" -> encodeUint(val, ro, tagK)
      [] e = "encodeFloat" -> encodeFloat(val, ro, tagK)
      [] e = "encodeComplex" -> encodeComplex(val, ro, tagK)
      [] e = "encodeSlice" -> encodeSlice(fp, val, ro, tagK)
      [] e = "encodeStruct" -> encodeStruct(fp, val, ro, tagK)
      [] e = "encodeMap" -> encodeMap(fp, val, ro, tagK)
      [] e = "encodeInvalid" -> encodeInvalid(val, ro, tagK)

\* encode skipping a value whose kind has no encoder instead of panicking
encodeSkipUnknown(fp, val, ro, tagK) ==
    IF elimPtr(val).kind \notin DOMAIN fp.encoders THEN {Ok(<<>>)}
    ELSE Apply(fp.encoders[elimPtr(val).kind], fp, elimPtr(val), ro, tagK)

\* FormParser.encode: unwrap pointers, look the kind up, run its encoder
encode(fp, val, ro, tagK) ==
    IF elimPtr(val).kind \notin DOMAIN fp.encoders
    THEN {UnknownType(elimPtr(val).kind)}
    ELSE Apply(fp.encoders[elimPtr(val).kind], fp, elimPtr(val), ro, tagK)

\* the field loop of parse encoding a nil pointer field as an empty value
parseFieldsNilEmpty(fp, rv, ro, i) ==
    IF i > Len(rv.fields) THEN {Ok(<<>>)}
    ELSE LET field == elimPtr(rv.fields[i].val)
             t == fieldTag(fp, rv.fields[i])
             here == IF t.drop THEN {Ok(<<>>)}
                     ELSE IF field.kind = "invalid" THEN {Ok(<<KV(t.tag, <<>>)>>)}
                     ELSE encode(fp, field, ro \/ ~IsExported(rv.fields[i]), t.tag)
         IN  Then(here, parseFields(fp, rv, ro, i + 1))

\* the field loop of parse, from field i (one-based) on; rv.Field(i) is
\* read-only when rv is, or when the field is unexported
parseFields(fp, rv, ro, i) ==
    IF i > Len(rv.fields) THEN {Ok(<<>>)}
    ELSE LET field == elimPtr(rv.fields[i].val)
             t == fieldTag(fp, rv.fields[i])
             here == IF field.kind = "invalid" THEN {Ok(<<>>)}
                     ELSE IF t.drop THEN {Ok(<<>>)}
                     ELSE encode(fp, field, ro \/ ~IsExported(rv.fields[i]), t.tag)
         IN  Then(here, parseFields(fp, rv, ro, i + 1))

\* FormParser.parse
parse(fp, rv, ro) ==
    IF rootElem(rv).kind # "struct" THEN {InvalidRoot}
    ELSE parseFields(fp, rootElem(rv), ro, 1)

\* the map ToMap builds from a KV list: a later pair overwrites an earlier one
FoldMap(list) ==
    [k \in {list[i].K : i \in 1..Len(list)} |->
        list[CHOOSE i \in 1..Len(list) :
                 list[i].K = k /\ \A j \in (i + 1)..Len(list) : list[j].K # k].V]

(***************************************************************************)
(* The inputs explored: Go types, and the values of each type.             *)
(***************************************************************************)
\* a predeclared type of kind k, or func, chan, interface
BasicT(k) == [t |-> k, named |-> FALSE]

\* type string, explored on the strings of pool
StrT(pool) == [t |-> "string", named |-> FALSE, pool |-> pool]

\* a defined type whose underlying type is the scalar type T: type D T
DefinedT(T) == [T EXCEPT !.named = TRUE]

ScalarKinds ==
    {"string", "bool", "int", "int8", "int16", "int32", "int64", "uint", "uint8",
     "uint16", "uint32", "uint64", "float32", "float64", "complex64", "complex128"}

\* n pointers to T: *T, **T, ...
PtrT(T, n) == IF n = 0 THEN T ELSE [t |-> "ptr", elem |-> PtrT(T, n - 1)]

\* []T or [n]T (k = "slice" or "array"); named: a defined type (type D []T)
SeqT(k, T, named) == [t |-> k, elem |-> T, named |-> named]

MapT(K, V) == [t |-> "map", key |-> K, val |-> V]

FieldT(name, tag, T) == [name |-> name, tag |-> tag, typ |-> T]

StructT(fields) == [t |-> "struct", fields |-> fields]

\* a struct tag with one key:"value" pair
Tag(key, val) == <<[key |-> key, val |-> val]>>

\* the values of the first n fields of a struct type, as field lists
FieldVals(fields, n) ==
    IF n = 0 THEN {<<>>}
    ELSE {fs \o <<Field(fields[n].name, fields[n].tag, x)>> :
             fs \in FieldVals(fields, n - 1), x \in Vals(fields[n].typ)}

\* the values explored of the predeclared scalar type of T
ScalarVals(T) ==
    CASE T.t = "string" -> {StringV(x) : x \in T.pool}
      [] T.t = "bool" -> {BoolV(TRUE), BoolV(FALSE)}
      [] T.t = "int" -> {IntV("int", 0), IntV("int", -12)}
      [] T.t = "int8" -> {IntV("int8", 65), IntV("int8", -1)}
      [] T.t = "uint8" -> {IntV("uint8", 65), IntV("uint8", 66)}
      [] T.t = "float64" -> {FloatV("float64", 13), FloatV("float64", -2)}
      [] T.t = "complex128" -> {ComplexV("complex128", 4, -6)}

\* the values of type T explored
Vals(T) ==
    CASE T.t \in ScalarKinds ->
            {IF T.named THEN Defined(x) ELSE x : x \in ScalarVals(T)}
      [] T.t \in {"func", "chan", "interface"} -> {OpaqueV(T.t)}
      [] T.t = "ptr" -> {NilPtr} \cup {PtrV(x) : x \in Vals(T.elem)}
      [] T.t \in {"slice", "array"} ->
            {SeqV(T.t, T.elem.t, T.named \/ (T.elem.t \in ScalarKinds /\ T.elem.named), s) :
                s \in UNION {[1..n -> Vals(T.elem)] : n \in 0..MaxLen}}
      [] T.t = "map" ->
            UNION {{MapV({[k |-> k, v |-> f[k]] : k \in ks}) : f \in [ks -> Vals(T.val)]} :
                      ks \in {x \in SUBSET Vals(T.key) : Cardinality(x) <= MaxLen}}
      [] T.t = "struct" -> {StructV(fs) : fs \in FieldVals(T.fields, Len(T.fields))}

\* struct tags of the explored types
NoTag == <<>>

ZDash == Tag("zwf", <<"-">>)

ZNoInherit == Tag("zwf", NoInherit)

ZAuth == Tag("zwf", <<"a", "u", "t", "h">>)

ZAk == Tag("zwf", <<"a", "k">>)

ZItems == Tag("zwf", <<"i", "t", "e", "m", "s">>)

ZItemsJoin == Tag("zwf", <<"i", "t", "e", "m", "s", ",", "j", "o", "i", "n">>)

ZJoin == Tag("zwf", <<",", "j", "o", "i", "n">>)

ZItemsOpt == Tag("zwf", <<"i", "t", "e", "m", "s", ",", "x">>)

\* a tag under another tag name: `json:"-"`
JsonDash == Tag("json", <<"-">>)

StringT == StrT({<<"a">>, <<"b">>})

\* string map keys, the empty string among them
KeyT == StrT({<<>>, <<"a">>})

\* the parsers explored
Configs == {Default, New("zwf", <<"a", "k">>)}

\* type Auth struct { AK T `tag` }, as in the comment on FormParser
AuthTypes ==
    {StructT(<<FieldT(<<"A", "K">>, tag, T)>>) :
        tag \in {ZAk, ZDash, NoTag}, T \in {PtrT(StringT, 1), BasicT("func")}}

\* struct { Inner Auth `tag` }
MidTypes ==
    {StructT(<<FieldT(<<"I", "n", "n", "e", "r">>, tag, T)>>) :
        tag \in {ZNoInherit, ZAuth}, T \in AuthTypes}

\* two-field structs used as map keys and map values
PairT == StructT(<<FieldT(<<"X">>, Tag("zwf", <<"x">>), StrT({<<"a">>})),
                   FieldT(<<"Y">>, Tag("zwf", <<"y">>), StrT({<<"b">>, <<"c">>}))>>)

ScalarTypes ==
    {StringT, BasicT("int"), BasicT("bool"), BasicT("float64"), BasicT("complex128"),
     BasicT("func"), DefinedT(StringT), DefinedT(BasicT("int"))}

PtrTypes == {PtrT(T, n) : T \in {StringT, BasicT("func")}, n \in 1..MaxPtrDepth}

SeqTypes ==
    {SeqT("slice", BasicT("uint8"), FALSE), SeqT("slice", BasicT("uint8"), TRUE),
     SeqT("array", BasicT("uint8"), FALSE), SeqT("slice", BasicT("int8"), FALSE),
     SeqT("slice", StringT, FALSE), SeqT("slice", StringT, TRUE),
     SeqT("array", StringT, FALSE), SeqT("slice", BasicT("int"), FALSE),
     SeqT("slice", PtrT(StringT, 1), FALSE), SeqT("slice", BasicT("func"), FALSE),
     SeqT("slice", DefinedT(BasicT("uint8")), FALSE),
     SeqT("slice", DefinedT(StringT), FALSE),
     SeqT("slice", StructT(<<FieldT(<<"A", "K">>, ZAk, StringT)>>), FALSE)}

MapTypes ==
    {MapT(KeyT, PtrT(StringT, 1)), MapT(KeyT, PairT), MapT(PairT, StringT),
     MapT(KeyT, BasicT("func")), MapT(BasicT("chan"), StringT),
     MapT(KeyT, SeqT("slice", StringT, FALSE))}

FieldTypes ==
    ScalarTypes \cup PtrTypes \cup SeqTypes \cup MapTypes \cup AuthTypes \cup MidTypes
    \cup {PtrT(T, 1) : T \in AuthTypes}

RootTags == {NoTag, ZDash, ZNoInherit, ZAuth, ZItems, ZItemsJoin, ZJoin, ZItemsOpt, JsonDash}

\* struct { A T `tag` }
OneFieldTypes == {StructT(<<FieldT(<<"A">>, tag, T)>>) : tag \in RootTags, T \in FieldTypes}

\* struct { A T1 `tag1`; B T2 `tag2` }
TwoFieldTypes ==
    {StructT(<<FieldT(<<"A">>, tag1, T1), FieldT(<<"B">>, tag2, T2)>>) :
        tag1 \in {NoTag, ZDash, ZAuth}, tag2 \in {ZDash, ZAk},
        T1 \in {StringT, PtrT(StringT, MaxPtrDepth), BasicT("func")} \cup AuthTypes,
        T2 \in {StringT, PtrT(BasicT("func"), 1), SeqT("slice", StringT, FALSE)}}

\* struct { a T `tag` } and struct { a string; B T `zwf:"ak"` }: an unexported field
UnexportedTypes ==
    {StructT(<<FieldT(<<"a">>, tag, T)>>) :
        tag \in {NoTag, ZDash, ZNoInherit, ZItemsJoin},
        T \in {StringT, PtrT(StringT, 1), BasicT("func"),
               SeqT("slice", BasicT("uint8"), FALSE), SeqT("slice", StringT, FALSE),
               MapT(KeyT, PtrT(StringT, 1)),
               StructT(<<FieldT(<<"A", "K">>, ZAk, PtrT(StringT, 1))>>)}}
    \cup {StructT(<<FieldT(<<"a">>, NoTag, StringT), FieldT(<<"B">>, ZAk, T)>>) :
             T \in {StringT, BasicT("func")}}

StructTypes ==
    OneFieldTypes \cup TwoFieldTypes \cup UnexportedTypes \cup AuthTypes \cup MidTypes

\* the types of the roots explored
RootTypes ==
    StructTypes
    \cup {PtrT(T, n) : T \in AuthTypes \cup MidTypes, n \in 1..MaxPtrDepth}
    \cup ScalarTypes \cup PtrTypes \cup SeqTypes \cup MapTypes

\* the Values handed to parse and ToMap, the zero Value among them
Inputs == UNION {Vals(T) : T \in RootTypes} \cup {Invalid}

(***************************************************************************)
(* The calls.                                                              *)
(***************************************************************************)
NilMap == [nil |-> TRUE, kv |-> FoldMap(<<>>)]

Init ==
    /\ p \in Configs
    /\ v \in Inputs
    /\ pc = "ready"
    /\ kvs = <<>>
    /\ m = NilMap
    /\ err = ""
    /\ panicMsg = ""

\* kvs, err := p.parse(v), for v = reflect.ValueOf(x), which is not read-only
Parse ==
    /\ pc = "ready"
    /\ \E r \in parse(p, v, FALSE) :
          /\ kvs' = r.kvs
          /\ err' = IF r.st = "err" THEN r.msg ELSE ""
          /\ panicMsg' = IF r.st = "panic" THEN r.msg ELSE ""
    /\ pc' = "parse"
    /\ UNCHANGED <<p, v, m>>

\* m, err := p.ToMap(v)
ToMap ==
    /\ pc = "ready"
    /\ \E r \in parse(p, v, FALSE) :
          /\ m' = IF r.st = "ok" THEN [nil |-> FALSE, kv |-> FoldMap(r.kvs)] ELSE NilMap
          /\ err' = IF r.st = "err" THEN r.msg ELSE ""
          /\ panicMsg' = IF r.st = "panic" THEN r.msg ELSE ""
    /\ pc' = "ToMap"
    /\ UNCHANGED <<p, v, kvs>>

Next == Parse \/ ToMap

Spec == Init /\ [][Next]_vars

(***************************************************************************)
(* Properties.                                                             *)
(***************************************************************************)
\* the outcome of the call made, read back from the state
Result ==
    [st  |-> IF err # "" THEN "err" ELSE IF panicMsg # "" THEN "panic" ELSE "ok",
     kvs |-> kvs,
     msg |-> IF err # "" THEN err ELSE panicMsg]

\* the value is a struct, or a chain of non-nil pointers ending in a struct
ResolvesToStruct(val) ==
    \/ val.kind = "struct"
    \/ val.kind = "ptr" /\ ResolvesToStruct(val.elem)

\* C1: a root that does not resolve to a struct under its pointers (a nil
\* pointer, a scalar, a sequence, a map) makes parse and ToMap fail with the
\* invalid-root error and return neither KVs nor a map; a root that resolves
\* to a struct never fails with that error.
C1_InvalidRoot ==
    pc # "ready" =>
        IF ResolvesToStruct(v)
        THEN err # InvalidRoot.msg
        ELSE err = InvalidRoot.msg /\ kvs = <<>> /\ m.nil /\ panicMsg = ""

\* ToMap of a pointer to a nil pointer failed, and ToMap of a pointer to a
\* pointer to a struct is a different input that did not
C1_Witness ==
    /\ pc = "ToMap"
    /\ v = PtrV(NilPtr)
    /\ err = InvalidRoot.msg
    /\ m.nil

\* val without the struct fields, at any depth, whose tag under the parser's
\* tag name is the ignore marker
StripDropped(fp, val) ==
    CASE val.kind = "ptr" -> PtrV(StripDropped(fp, val.elem))
      [] val.kind = "struct" ->
            LET Kept(f) == Get(f.tag, fp.tag) # fp.ignoreFlag
                kept == SelectSeq(val.fields, Kept)
            IN  StructV([i \in 1..Len(kept) |->
                            Field(kept[i].name, kept[i].tag, StripDropped(fp, kept[i].val))])
      [] val.kind \in {"slice", "array"} ->
            [val EXCEPT !.elems = [i \in 1..Len(val.elems) |-> StripDropped(fp, val.elems[i])]]
      [] val.kind = "map" ->
            MapV({[k |-> StripDropped(fp, e.k), v |-> StripDropped(fp, e.v)] : e \in val.entries})
      [] OTHER -> val

\* C2: a field whose tag equals the ignore marker contributes no KV, whatever
\* its kind and value, in the root struct and in every nested struct: the
\* call returns what it returns for the same value without those fields.
C2_DroppedField ==
    pc = "parse" => Result \in parse(p, StripDropped(p, v), FALSE)

\* a dropped func field inside a nested struct, next to an encoded field
C2_Witness ==
    /\ pc = "parse"
    /\ p = Default
    /\ v = StructV(<<Field(<<"A">>, ZAuth,
                           StructV(<<Field(<<"A", "K">>, ZDash, OpaqueV("func"))>>)),
                     Field(<<"B">>, ZAk, StringV(<<"a">>))>>)
    /\ kvs = <<KV(<<"a", "k">>, <<"a">>)>>
    /\ panicMsg = ""

\* a pointer that is nil, or leads to a nil pointer
IsAbsent(val) ==
    val.kind = "ptr" /\ (val.elem.kind = "invalid" \/ IsAbsent(val.elem))

\* val without the struct fields, at any depth, that hold an absent pointer
StripAbsent(val) ==
    CASE val.kind = "ptr" /\ val.elem.kind # "invalid" -> PtrV(StripAbsent(val.elem))
      [] val.kind = "struct" ->
            LET Present(f) == ~IsAbsent(f.val)
                kept == SelectSeq(val.fields, Present)
            IN  StructV([i \in 1..Len(kept) |->
                            Field(kept[i].name, kept[i].tag, StripAbsent(kept[i].val))])
      [] val.kind \in {"slice", "array"} ->
            [val EXCEPT !.elems = [i \in 1..Len(val.elems) |-> StripAbsent(val.elems[i])]]
      [] val.kind = "map" ->
            MapV({[k |-> StripAbsent(e.k), v |-> StripAbsent(e.v)] : e \in val.entries})
      [] OTHER -> val

\* C3: a pointer field that is nil at any level of its chain contributes no
\* KV and raises neither error nor panic, whatever its tag and pointee type,
\* and the other fields are encoded as usual: the call returns what it
\* returns for the same value without those fields.
C3_AbsentPointer ==
    pc = "parse" => Result \in parse(p, StripAbsent(v), FALSE)

\* a nil *func field tagged "ak" next to a string field tagged "auth"
C3_Witness ==
    /\ pc = "parse"
    /\ p = Default
    /\ v = StructV(<<Field(<<"A">>, ZAuth, StringV(<<"a">>)),
                     Field(<<"B">>, ZAk, NilPtr)>>)
    /\ kvs = <<KV(<<"a", "u", "t", "h">>, <<"a">>)>>
    /\ err = ""
    /\ panicMsg = ""

\* the kinds FormParser.init registers no encoder for
Unsupported == {"func", "chan", "interface", "uintptr", "unsafe.Pointer"}

\* val holds a value of an unsupported kind: itself, under a pointer, in a
\* struct field, a sequence element, a map key or a map value
ContainsUnsupported(val) ==
    CASE val.kind \in Unsupported -> TRUE
      [] val.kind = "ptr" -> ContainsUnsupported(val.elem)
      [] val.kind = "struct" ->
            \E i \in 1..Len(val.fields) : ContainsUnsupported(val.fields[i].val)
      [] val.kind \in {"slice", "array"} ->
            \E i \in 1..Len(val.elems) : ContainsUnsupported(val.elems[i])
      [] val.kind = "map" ->
            \E e \in val.entries : ContainsUnsupported(e.k) \/ ContainsUnsupported(e.v)
      [] OTHER -> FALSE

\* the same, not counting what lies in a struct field tagged with the ignore marker
ReachesUnsupported(fp, val) ==
    CASE val.kind \in Unsupported -> TRUE
      [] val.kind = "ptr" -> ReachesUnsupported(fp, val.elem)
      [] val.kind = "struct" ->
            \E i \in 1..Len(val.fields) :
                /\ Get(val.fields[i].tag, fp.tag) # fp.ignoreFlag
                /\ ReachesUnsupported(fp, val.fields[i].val)
      [] val.kind \in {"slice", "array"} ->
            \E i \in 1..Len(val.elems) : ReachesUnsupported(fp, val.elems[i])
      [] val.kind = "map" ->
            \E e \in val.entries : ReachesUnsupported(fp, e.k) \/ ReachesUnsupported(fp, e.v)
      [] OTHER -> FALSE

\* val has no unexported struct field and no scalar of a defined type, at
\* any depth: no encoder panics in Interface() or in its type assertion
Plain(val) ==
    CASE val.kind \in ScalarKinds -> ~val.named
      [] val.kind = "ptr" -> Plain(val.elem)
      [] val.kind = "struct" ->
            \A i \in 1..Len(val.fields) :
                IsExported(val.fields[i]) /\ Plain(val.fields[i].val)
      [] val.kind \in {"slice", "array"} ->
            \A i \in 1..Len(val.elems) : Plain(val.elems[i])
      [] val.kind = "map" -> \A e \in val.entries : Plain(e.k) /\ Plain(e.v)
      [] OTHER -> TRUE

\* the panics of encode on a kind without encoder
UnknownTypePanics == {"Unknown type " \o k : k \in Unsupported}

\* C4 as claimed: a struct root holding a value of an unsupported kind at any
\* depth makes the call abort with the unknown-kind failure, nothing returned.
C4_Original ==
    pc # "ready" /\ ResolvesToStruct(v) /\ Plain(v) /\ ContainsUnsupported(v) =>
        panicMsg \in UnknownTypePanics /\ kvs = <<>> /\ m.nil

\* C4 as amended: a struct root holding a value of an unsupported kind at any
\* depth (struct field, sequence element, map key, map value), outside the
\* fields tagged with the ignore marker, makes the call abort with a panic,
\* the caller getting neither KVs nor a map nor an error; the panic is the
\* unknown-kind one when the value has no unexported field and no scalar of a
\* defined type (whose encoders panic themselves).
C4_UnsupportedKind ==
    pc # "ready" /\ ResolvesToStruct(v) /\ ReachesUnsupported(p, v) =>
        /\ panicMsg # ""
        /\ kvs = <<>>
        /\ m.nil
        /\ err = ""
        /\ Plain(v) => panicMsg \in UnknownTypePanics

\* ToMap of a struct whose map field holds a func value panicked
C4_Witness ==
    /\ pc = "ToMap"
    /\ v.kind = "struct"
    /\ v.fields[1].val.kind = "map"
    /\ \E e \in v.fields[1].val.entries : e.v.kind = "func"
    /\ panicMsg = "Unknown type func"
    /\ m.nil

\* what a chain of pointers leads to: a value that is no pointer, or Invalid
Pointee(val) == IF val.kind = "ptr" THEN Pointee(val.elem) ELSE val

\* the key a field resolves to: its tag under the parser's tag name, or its
\* declared name when that tag is missing or empty
ResolvedKey(fp, f) ==
    IF Get(f.tag, fp.tag) = <<>> THEN f.name ELSE Get(f.tag, fp.tag)

IsDropped(fp, f) == Get(f.tag, fp.tag) = fp.ignoreFlag

\* the composition rule: no prefix under the suppression marker
Compose(P, C) == IF P = NoInherit THEN C ELSE P \o Dot \o C

Range(list) == {list[i] : i \in 1..Len(list)}

\* the root is a struct with a single field, exported and not dropped, whose
\* value has a kind of k
SingleField(k) ==
    /\ v.kind = "struct"
    /\ Len(v.fields) = 1
    /\ IsExported(v.fields[1])
    /\ ~IsDropped(p, v.fields[1])
    /\ v.fields[1].val.kind \in k

\* C5: the KVs of a nested struct field with key P appear in the enclosing
\* result with key C under the marker "..." and P.C otherwise, for that
\* nesting level only: "auth" over "..." over "ak" gives "auth.ak", and so
\* does "auth" over "ak".
C5_NestedKeys ==
    pc = "parse" /\ Result.st = "ok" /\ ResolvesToStruct(v) =>
        /\ \A i \in 1..Len(Pointee(v).fields) :
              LET f == Pointee(v).fields[i]
              IN  Pointee(f.val).kind = "struct" /\ ~IsDropped(p, f) =>
                      \A inner \in parse(p, Pointee(f.val), ~IsExported(f)) :
                          inner.st = "ok" =>
                              \A j \in 1..Len(inner.kvs) :
                                  KV(Compose(ResolvedKey(p, f), inner.kvs[j].K),
                                     inner.kvs[j].V) \in Range(kvs)
        /\ \A s \in {<<"a">>, <<"b">>} :
              LET Auth == StructV(<<Field(<<"A", "K">>, ZAk, PtrV(StringV(s)))>>)
                  Mid == StructV(<<Field(<<"I", "n", "n", "e", "r">>, ZNoInherit, Auth)>>)
              IN  p = Default /\ v \in {StructV(<<Field(<<"A">>, ZAuth, Auth)>>),
                                        StructV(<<Field(<<"A">>, ZAuth, Mid)>>)} =>
                      kvs = <<KV(<<"a", "u", "t", "h", ".", "a", "k">>, s)>>

\* "auth" over "..." over "ak": the key "auth.ak"
C5_Witness ==
    /\ pc = "parse"
    /\ p = Default
    /\ v = StructV(<<Field(<<"A">>, ZAuth,
               StructV(<<Field(<<"I", "n", "n", "e", "r">>, ZNoInherit,
                   StructV(<<Field(<<"A", "K">>, ZAk, PtrV(StringV(<<"a">>)))>>))>>))>>)
    /\ kvs = <<KV(<<"a", "u", "t", "h", ".", "a", "k">>, <<"a">>)>>

\* val is the literal type []byte: a slice of uint8, no defined type involved
IsByteSlice(val) == val.kind = "slice" /\ val.elemKind = "uint8" /\ ~val.named

\* val is the literal type []string
IsStringSlice(val) == val.kind = "slice" /\ val.elemKind = "string" /\ ~val.named

\* the modifier segment of key, its second comma-separated segment, is "join"
HasJoin(key) == Len(Split(key, ",")) > 1 /\ Split(key, ",")[2] = JoinWord

\* the sequence val under key is encoded element by element
GeneralCase(val, key) ==
    ~IsByteSlice(val) /\ ~(IsStringSlice(val) /\ HasJoin(key))

\* the outcomes of encoding elems[i+1..] in index order, element i under key
\* P.i, or under Compose(P, i) when suppress is set
ElemOutcomes(fp, elems, P, suppress, i) ==
    IF i >= Len(elems) THEN {Ok(<<>>)}
    ELSE Then(encode(fp, elems[i + 1], FALSE,
                     IF suppress THEN Compose(P, FormatInt(i))
                     ELSE P \o Dot \o FormatInt(i)),
              ElemOutcomes(fp, elems, P, suppress, i + 1))

\* C6 as claimed: in the general case the elements are encoded in index order,
\* element i under the key composed from the sequence's key P and i, so
\* without the prefix when P is "...".
C6_Original ==
    pc = "parse" /\ SingleField({"slice", "array"}) /\ Plain(v)
    /\ GeneralCase(v.fields[1].val, ResolvedKey(p, v.fields[1])) =>
        Result \in ElemOutcomes(p, v.fields[1].val.elems,
                                ResolvedKey(p, v.fields[1]), TRUE, 0)

\* C6 as amended: in the general case the elements are encoded in index order,
\* element i under the key P.i for every key P, the marker "..." included.
C6_ElementKeys ==
    pc = "parse" /\ SingleField({"slice", "array"})
    /\ GeneralCase(v.fields[1].val, ResolvedKey(p, v.fields[1])) =>
        /\ Result \in ElemOutcomes(p, v.fields[1].val.elems,
                                   ResolvedKey(p, v.fields[1]), FALSE, 0)
        /\ v.fields[1].val.elemKind = "string" /\ Plain(v) =>
              kvs = [i \in 1..Len(v.fields[1].val.elems) |->
                        KV(ResolvedKey(p, v.fields[1]) \o Dot \o FormatInt(i - 1),
                           v.fields[1].val.elems[i].s)]

\* a []string{"a", "b"} tagged "...": the keys "....0" and "....1"
C6_Witness ==
    /\ pc = "parse"
    /\ v = StructV(<<Field(<<"A">>, ZNoInherit,
                           SeqV("slice", "string", FALSE,
                                <<StringV(<<"a">>), StringV(<<"b">>)>>))>>)
    /\ kvs = <<KV(<<".", ".", ".", ".", "0">>, <<"a">>),
               KV(<<".", ".", ".", ".", "1">>, <<"b">>)>>

\* the one KV of the join case: first tag segment, elements joined by commas
Joined(val, key) ==
    <<KV(Split(key, ",")[1],
         Join([i \in 1..Len(val.elems) |-> val.elems[i].s], Comma))>>

\* C7 as claimed: a slice or array of strings, here a non-empty one of an
\* unnamed type, whose tag has the modifier "join" yields one KV, first tag
\* segment and comma-joined elements.
C7_Original ==
    pc = "parse" /\ SingleField({"slice", "array"}) /\ Plain(v)
    /\ v.fields[1].val.elemKind = "string"
    /\ ~v.fields[1].val.named
    /\ v.fields[1].val.elems # <<>>
    /\ HasJoin(ResolvedKey(p, v.fields[1])) =>
        Result = Ok(Joined(v.fields[1].val, ResolvedKey(p, v.fields[1])))

\* C7 as amended: a value of the literal type []string (no array, no defined
\* type) whose tag has "join" as its second comma-separated segment yields
\* exactly one KV, first tag segment and comma-joined elements, and no
\* indexed pair; "items,join" with ["a", "b"] yields {"items": "a,b"}.
C7_Join ==
    pc = "parse" /\ SingleField({"slice", "array"})
    /\ IsStringSlice(v.fields[1].val)
    /\ HasJoin(ResolvedKey(p, v.fields[1])) =>
        /\ Result = Ok(Joined(v.fields[1].val, ResolvedKey(p, v.fields[1])))
        /\ v.fields[1].tag = ZItemsJoin
           /\ v.fields[1].val.elems = <<StringV(<<"a">>), StringV(<<"b">>)>> =>
              kvs = <<KV(<<"i", "t", "e", "m", "s">>, <<"a", ",", "b">>)>>

\* []string{"a", "b"} tagged "items,join"
C7_Witness ==
    /\ pc = "parse"
    /\ v = StructV(<<Field(<<"A">>, ZItemsJoin,
                           SeqV("slice", "string", FALSE,
                                <<StringV(<<"a">>), StringV(<<"b">>)>>))>>)
    /\ kvs = <<KV(<<"i", "t", "e", "m", "s">>, <<"a", ",", "b">>)>>

\* the one KV of the byte case: the whole key, the bytes in base64
Base64KV(val, key) ==
    <<KV(key, EncodeToString([i \in 1..Len(val.elems) |-> val.elems[i].n]))>>

\* C8 as claimed: a slice or array of bytes, here a non-empty one of an
\* unnamed type, yields one KV, the key and the base64 of the bytes.
C8_Original ==
    pc = "parse" /\ SingleField({"slice", "array"}) /\ Plain(v)
    /\ v.fields[1].val.elemKind = "uint8"
    /\ ~v.fields[1].val.named
    /\ v.fields[1].val.elems # <<>> =>
        Result = Ok(Base64KV(v.fields[1].val, ResolvedKey(p, v.fields[1])))

\* C8 as amended: a value of the literal type []byte (a slice of uint8; no
\* array, no []int8, no defined type) yields exactly one KV, the whole key
\* (modifier included) and the standard base64 of the bytes, whatever the tag's
\* modifier; the bytes 0x41 0x42 yield "QUI=".
C8_Bytes ==
    pc = "parse" /\ SingleField({"slice", "array"})
    /\ IsByteSlice(v.fields[1].val) =>
        /\ Result = Ok(Base64KV(v.fields[1].val, ResolvedKey(p, v.fields[1])))
        /\ v.fields[1].val.elems = <<IntV("uint8", 65), IntV("uint8", 66)>> =>
              kvs[1].V = <<"Q", "U", "I", "=">>

\* []byte("AB") tagged "items,join": base64 wins over join
C8_Witness ==
    /\ pc = "parse"
    /\ v = StructV(<<Field(<<"A">>, ZItemsJoin,
                           SeqV("slice", "uint8", FALSE,
                                <<IntV("uint8", 65), IntV("uint8", 66)>>))>>)
    /\ kvs = <<KV(<<"i", "t", "e", "m", "s", ",", "j", "o", "i", "n">>,
                  <<"Q", "U", "I", "=">>)>>

\* some struct field of val, at any depth, resolves to the key "..."
HasNoInherit(fp, val) ==
    CASE val.kind = "ptr" -> HasNoInherit(fp, val.elem)
      [] val.kind = "struct" ->
            \E i \in 1..Len(val.fields) :
                \/ ResolvedKey(fp, val.fields[i]) = NoInherit
                \/ HasNoInherit(fp, val.fields[i].val)
      [] val.kind \in {"slice", "array"} ->
            \E i \in 1..Len(val.elems) : HasNoInherit(fp, val.elems[i])
      [] val.kind = "map" ->
            \E e \in val.entries : HasNoInherit(fp, e.k) \/ HasNoInherit(fp, e.v)
      [] OTHER -> FALSE

\* C9: when no field of the value carries the suppression marker, no key of a
\* successful parse or ToMap is empty, whatever the tags and kinds.
C9_NonEmptyKey ==
    pc # "ready" /\ Result.st = "ok" /\ ~HasNoInherit(p, v) =>
        /\ \A i \in 1..Len(kvs) : kvs[i].K # <<>>
        /\ <<>> \notin DOMAIN m.kv

\* the only outcome of encoding x under the empty key (x holds no map)
Enc(x) == CHOOSE r \in encode(p, x, FALSE, <<>>) : TRUE

\* the (entry, key-KV index, value-KV index) triples of map val that yield kv
\* under key P
Yielding(val, P, kv) ==
    {t \in UNION {{e} \X (1..Len(Enc(e.k).kvs)) \X (1..Len(Enc(e.v).kvs)) :
                      e \in val.entries} :
        kv = KV(Compose(P, Enc(t[1].k).kvs[t[2]].V), Enc(t[1].v).kvs[t[3]].V)}

\* C10: a map field with key P yields, for each entry and each pair of a KV
\* of the encoded key and a KV of the encoded value, exactly one KV: its value
\* is the value-KV's value, its key the key-KV's value, prefixed with P and a
\* dot unless P is "..."; nothing else is yielded.
C10_MapEntries ==
    pc = "parse" /\ SingleField({"map"}) /\ Result.st = "ok" =>
        LET val == v.fields[1].val
            P == ResolvedKey(p, v.fields[1])
            all == UNION {{KV(Compose(P, Enc(e.k).kvs[i].V), Enc(e.v).kvs[j].V) :
                              i \in 1..Len(Enc(e.k).kvs), j \in 1..Len(Enc(e.v).kvs)} :
                             e \in val.entries}
        IN  \A kv \in all \cup Range(kvs) :
                Cardinality({n \in 1..Len(kvs) : kvs[n] = kv})
                    = Cardinality(Yielding(val, P, kv))

\* a map[string]struct tagged "..." whose entry "a" holds a two-field struct:
\* two KVs under the key "a", the struct's field keys x and y nowhere
C10_Witness ==
    /\ pc = "parse"
    /\ v = StructV(<<Field(<<"A">>, ZNoInherit,
               MapV({[k |-> StringV(<<"a">>),
                      v |-> StructV(<<Field(<<"X">>, Tag("zwf", <<"x">>), StringV(<<"a">>)),
                                      Field(<<"Y">>, Tag("zwf", <<"y">>), StringV(<<"b">>))>>)]}))>>)
    /\ kvs = <<KV(<<"a">>, <<"a">>), KV(<<"a">>, <<"b">>)>>

====
